---- MODULE Spec2Model ----
(***************************************************************************)
(* A model of src/train.py: the epoch loop of main() and the per-batch     *)
(* multi-precision passes of forward().                                    *)
(*                                                                         *)
(* Tensors are abstracted by the precision level of the forward run that   *)
(* produced them; the optimizer by the list of gradient contributions it   *)
(* holds and the number of parameter updates it has applied.               *)
(***************************************************************************)
EXTENDS Integers, Sequences, FiniteSets, TLC

\* ---------------------------------------------------------------- bounds
MaxLen == 2        \* longest requested bit-width list
MaxBatches == 2    \* longest data loader of a single pass
MaxLayers == 1     \* largest model.get_num_layers()
MaxEpochs == 3     \* largest args.epochs

\* ------------------------------------------------------ program constants
FullPrecision == 32

Levels == {4, 8, FullPrecision}
Scores == {700, 710, 725}          \* top-1 in tenths of a percent
LoaderSizes == {0, 1}              \* loader lengths of a whole run
StartEpochs == {0, 1}              \* --start-epoch values
PathKinds == {"None", "missing", "file"}
NoBest == -1                       \* best_prec1 = None (no score is negative)

Schedules(n) == UNION {[1..m -> Levels] : m \in 1..n}
RunSchedules == {<<8, 4>>, <<32, 8>>}

Range(s) == {s[j] : j \in 1..Len(s)}

\* ------------------------------------------------------- pure functions
RECURSIVE Insert(_, _)
Insert(x, s) ==
    IF s = <<>> THEN <<x>>
    ELSE IF x <= Head(s) THEN <<x>> \o s
    ELSE <<Head(s)>> \o Insert(x, Tail(s))

RECURSIVE SortList(_)
\* list.sort(): ascending, every element kept
SortList(s) == IF s = <<>> THEN <<>> ELSE Insert(Head(s), SortList(Tail(s)))

\* main(): the list the model is built with
bw_list(sorted) ==
    IF FullPrecision \notin Range(sorted) THEN sorted \o <<FullPrecision>> ELSE sorted

Last(s) == s[Len(s)]

\* AverageMeter(): nothing recorded yet
NewMeter == [updates |-> 0, count |-> 0, levels |-> {}]

\* AverageMeter.update(value, n) with a value computed from a forward run at
\* level lv and n = input.size(0)
BatchSize == 2
MeterUpdate(m, lv) ==
    [updates |-> m.updates + 1, count |-> m.count + BatchSize,
     levels |-> m.levels \cup {lv}]

\* one entry of the per-batch record of model and optimizer calls
Ev(op, w, a, loss, tgt, meter) ==
    [op |-> op, wbit |-> w, abit |-> a, loss |-> loss, tgt |-> tgt, meter |-> meter]

VARIABLES
    args,            \* parsed command line
    env,             \* loaders, model depth, scheduler kind, files on disk
    pc,              \* position of main()
    epoch,           \* loop variable of main()
    best_prec1,      \* running best, NoBest for None
    is_best,         \* flag of the latest comparison
    val_prec1,       \* val_prec1[-1] of the latest validation pass
    val_loss_given,  \* arguments of the lr_scheduler.step calls
    saved,           \* what save_checkpoint has received
    loaded,          \* what startup loaded, and from where
    error,           \* exception that ended the run, "none" otherwise
    scoreHist,       \* validation scores of the executed epochs
    flagHist,        \* is_best of the executed epochs
    epochLog,        \* steps main() has taken in the current epoch
    prior,           \* what an earlier, stopped run of main() executed
    fpc,             \* position of forward()
    training,        \* forward(): training argument
    data_loader,     \* forward(): number of batches of the loader
    i,               \* forward(): batches finished
    k,               \* forward(): position in the level loop
    bit_width_list,  \* forward(): sorted requested levels
    meters,          \* forward(): losses/top1/top5, one per list entry
    slack_meter,     \* forward(): per entry, num_layers+1 update counts
    wbit, abit,      \* precision selectors of the model
    mode,            \* "train" after model.train(), "eval" after model.eval()
    output,          \* level of the forward run that produced output
    target_soft,     \* level whose detached output target_soft is taken from
    act_full,        \* level of the forward run that produced act_full
    grads,           \* gradient contributions accumulated since zero_grad
    params,          \* number of optimizer steps applied to the parameters
    log,             \* model/optimizer calls of the current batch
    snap             \* parameters and gradients at entry of the pass

mainVars == <<args, env, pc, epoch, best_prec1, is_best, val_prec1,
              val_loss_given, saved, loaded, error, scoreHist, flagHist, epochLog,
              prior>>
passVars == <<fpc, training, data_loader, i, k, bit_width_list, meters,
              slack_meter, wbit, abit, mode, output, target_soft, act_full,
              grads, params, log, snap>>
vars == <<mainVars, passVars>>

\* no earlier run of main()
NoPrior == [runs |-> 0, start |-> 0, ran |-> <<>>, scores |-> <<>>]

\* ------------------------------------------------------------ forward()
\* Each action models a straight-line run of statements of forward().

\* lines 158-163: the sorted list and one fresh accumulator per list entry
ForwardEntry ==
    /\ fpc = "call"
    /\ bit_width_list' = SortList(args.bit_width_list)
    /\ meters' = [j \in 1..Len(args.bit_width_list) |-> NewMeter]
    /\ slack_meter' = [j \in 1..Len(args.bit_width_list) |->
                          [l \in 1..(env.num_layers + 1) |-> 0]]
    /\ i' = 0
    /\ k' = 0
    /\ output' = 0
    /\ target_soft' = 0
    /\ act_full' = 0
    /\ log' = <<>>
    /\ snap' = [params |-> params, grads |-> grads, mode |-> mode]
    /\ fpc' = "batch"
    /\ UNCHANGED <<mainVars, training, data_loader, wbit, abit, mode, grads,
                   params>>

\* lines 165-175: the reference trace and soft target of an evaluation batch
EvalReference ==
    /\ fpc = "batch"
    /\ ~training
    /\ i < data_loader
    /\ mode' = "eval"
    /\ wbit' = Last(bit_width_list)
    /\ abit' = Last(bit_width_list)
    /\ act_full' = wbit'
    /\ output' = wbit'
    /\ target_soft' = output'
    /\ log' = <<Ev("forward", wbit', abit', "none", 0, 0),
                Ev("forward", wbit', abit', "none", 0, 0)>>
    /\ k' = 1
    /\ fpc' = "eval_lvl"
    /\ UNCHANGED <<mainVars, training, data_loader, i, bit_width_list, meters,
                   slack_meter, grads, params, snap>>

\* lines 176-189, one iteration: metrics of level bit_width_list[k], its
\* activation trace, the output slack and the per-layer slack.  The name
\* epsilon is bound nowhere in the file, so the first per-layer slack raises
\* NameError.
EvalLevel ==
    /\ fpc = "eval_lvl"
    /\ LET bw == bit_width_list[k]
           last == env.num_layers + 1
       IN /\ wbit' = bw
          /\ abit' = bw
          /\ output' = bw
          /\ meters' = [meters EXCEPT ![k] = MeterUpdate(@, bw)]
          /\ slack_meter' = [slack_meter EXCEPT ![k][last] = @ + 1]
          /\ log' = log \o <<Ev("forward", bw, bw, "hard", 0, k),
                             Ev("forward", bw, bw, "none", 0, 0)>>
    /\ IF env.num_layers > 0
       THEN /\ fpc' = "raised"
            /\ pc' = "error"
            /\ error' = "NameError: epsilon"
            /\ k' = k
       ELSE /\ fpc' = IF k < Len(bit_width_list) THEN "eval_lvl" ELSE "eval_else"
            /\ k' = k + 1
            /\ UNCHANGED <<pc, error>>
    /\ UNCHANGED <<prior, args, env, epoch, best_prec1, is_best, val_prec1,
                   val_loss_given, saved, loaded, scoreHist, flagHist, epochLog,
                   training, data_loader, i, bit_width_list, mode, target_soft,
                   act_full, grads, params, snap>>

\* lines 190-193: the else clause of the level loop, entered when the loop
\* has run through
EvalElse ==
    /\ fpc = "eval_else"
    /\ wbit' = FullPrecision
    /\ abit' = FullPrecision
    /\ k' = 1
    /\ fpc' = "else_lvl"
    /\ UNCHANGED <<mainVars, training, data_loader, i, bit_width_list, meters,
                   slack_meter, mode, output, target_soft, act_full, grads,
                   params, log, snap>>

\* ElseLevel with a loss.backward() after the loss is computed
ElseLevelBackward ==
    /\ fpc = "else_lvl"
    /\ LET bw == bit_width_list[k]
       IN /\ wbit' = bw
          /\ abit' = bw
          /\ output' = bw
          /\ meters' = [meters EXCEPT ![k] = MeterUpdate(@, bw)]
          /\ grads' = Append(grads, [level |-> bw, loss |-> "hard", tgt |-> 0])
          /\ log' = log \o <<Ev("forward", bw, bw, "hard", 0, k),
                             Ev("backward", bw, bw, "hard", 0, 0)>>
    /\ IF k < Len(bit_width_list)
       THEN /\ k' = k + 1
            /\ UNCHANGED <<fpc, i>>
       ELSE /\ k' = 0
            /\ i' = i + 1
            /\ fpc' = "batch"
    /\ UNCHANGED <<mainVars, training, data_loader, bit_width_list, slack_meter,
                   mode, target_soft, act_full, params, snap>>

\* lines 194-202, one iteration; after the last one the batch is finished
ElseLevel ==
    /\ fpc = "else_lvl"
    /\ LET bw == bit_width_list[k]
       IN /\ wbit' = bw
          /\ abit' = bw
          /\ output' = bw
          /\ meters' = [meters EXCEPT ![k] = MeterUpdate(@, bw)]
          /\ log' = Append(log, Ev("forward", bw, bw, "hard", 0, k))
    /\ IF k < Len(bit_width_list)
       THEN /\ k' = k + 1
            /\ UNCHANGED <<fpc, i>>
       ELSE /\ k' = 0
            /\ i' = i + 1
            /\ fpc' = "batch"
    /\ UNCHANGED <<mainVars, training, data_loader, bit_width_list, slack_meter,
                   mode, target_soft, act_full, grads, params, snap>>

\* lines 204-219: zero_grad, the full-precision supervisor with the hard
\* loss, its backward call, and the first soft target
TrainReference ==
    /\ fpc = "batch"
    /\ training
    /\ i < data_loader
    /\ wbit' = FullPrecision
    /\ abit' = FullPrecision
    /\ act_full' = wbit'
    /\ output' = wbit'
    /\ grads' = <<[level |-> wbit', loss |-> "hard", tgt |-> 0]>>
    /\ meters' = [meters EXCEPT ![Len(meters)] = MeterUpdate(@, wbit')]
    /\ target_soft' = output'
    /\ log' = <<Ev("zero_grad", 0, 0, "none", 0, 0),
                Ev("forward", wbit', abit', "hard", 0, Len(meters)),
                Ev("backward", wbit', abit', "hard", 0, 0)>>
    /\ k' = 1
    /\ fpc' = "train_lvl"
    /\ UNCHANGED <<mainVars, training, data_loader, i, bit_width_list,
                   slack_meter, mode, params, snap>>

\* TrainLevel with optimizer.step() moved into the level loop
TrainLevelStepping ==
    /\ fpc = "train_lvl"
    /\ k <= Len(bit_width_list)
    /\ LET bw == bit_width_list[k]
       IN /\ wbit' = bw
          /\ abit' = bw
          /\ output' = bw
          /\ grads' = Append(grads, [level |-> bw, loss |-> "soft", tgt |-> target_soft])
          /\ target_soft' = bw
          /\ meters' = [meters EXCEPT ![k] = MeterUpdate(@, bw)]
          /\ log' = log \o <<Ev("forward", bw, bw, "soft", target_soft, k),
                             Ev("backward", bw, bw, "soft", target_soft, 0),
                             Ev("step", 0, 0, "none", 0, 0)>>
    /\ params' = params + 1
    /\ k' = k + 1
    /\ UNCHANGED <<mainVars, fpc, training, data_loader, i, bit_width_list,
                   slack_meter, mode, act_full, snap>>

\* lines 220-232, one iteration: level bit_width_list[k] against the current
\* soft target, its backward call, and the next soft target
TrainLevel ==
    /\ fpc = "train_lvl"
    /\ k <= Len(bit_width_list)
    /\ LET bw == bit_width_list[k]
       IN /\ wbit' = bw
          /\ abit' = bw
          /\ output' = bw
          /\ grads' = Append(grads, [level |-> bw, loss |-> "soft", tgt |-> target_soft])
          /\ target_soft' = bw
          /\ meters' = [meters EXCEPT ![k] = MeterUpdate(@, bw)]
          /\ log' = log \o <<Ev("forward", bw, bw, "soft", target_soft, k),
                             Ev("backward", bw, bw, "soft", target_soft, 0)>>
    /\ k' = k + 1
    /\ UNCHANGED <<mainVars, fpc, training, data_loader, i, bit_width_list,
                   slack_meter, mode, act_full, params, snap>>

\* lines 233-237: the optimizer step that ends a training batch
TrainStep ==
    /\ fpc = "train_lvl"
    /\ k > Len(bit_width_list)
    /\ params' = params + 1
    /\ log' = Append(log, Ev("step", 0, 0, "none", 0, 0))
    /\ i' = i + 1
    /\ k' = 0
    /\ fpc' = "batch"
    /\ UNCHANGED <<mainVars, training, data_loader, bit_width_list, meters,
                   slack_meter, wbit, abit, mode, output, target_soft, act_full,
                   grads, snap>>

\* lines 238-241: the loader is exhausted
ForwardReturn ==
    /\ fpc = "batch"
    /\ i >= data_loader
    /\ fpc' = "returned"
    /\ UNCHANGED <<mainVars, training, data_loader, i, k, bit_width_list, meters,
                   slack_meter, wbit, abit, mode, output, target_soft, act_full,
                   grads, params, log, snap>>

NextPass ==
    \/ ForwardEntry
    \/ EvalReference
    \/ EvalLevel
    \/ EvalElse
    \/ ElseLevel
    \/ TrainReference
    \/ TrainLevel
    \/ TrainStep
    \/ ForwardReturn

\* A single call of forward(): any requested list, either mode, any loader
\* length, and gradients possibly left over from an earlier batch.
InitPass ==
    /\ args \in [bit_width_list : Schedules(MaxLen), epochs : {1},
                 start_epoch : {0}, wandb_log : {FALSE},
                 eval_constraint : BOOLEAN, resume : {"None"}, pretrain : {"None"}]
    /\ env \in [train_loader : {0}, val_loader : {0}, num_layers : 0..MaxLayers,
                plateau : {FALSE}, ckpt : {[epoch |-> 0, best_prec1 |-> NoBest]}]
    /\ pc = "pass"
    /\ epoch = 0
    /\ best_prec1 = NoBest
    /\ is_best = FALSE
    /\ val_prec1 = 0
    /\ val_loss_given = <<>>
    /\ saved = <<>>
    /\ loaded = [weights |-> "init", optimizer |-> "init", sched_epoch |-> 0,
                 model_bits |-> bw_list(SortList(args.bit_width_list)),
                 cli_start |-> 0]
    /\ error = "none"
    /\ scoreHist = <<>>
    /\ flagHist = <<>>
    /\ epochLog = <<>>
    /\ prior = NoPrior
    /\ fpc = "call"
    /\ training \in BOOLEAN
    /\ data_loader \in 0..MaxBatches
    /\ i = 0
    /\ k = 0
    /\ bit_width_list = <<>>
    /\ meters = <<>>
    /\ slack_meter = <<>>
    /\ wbit = FullPrecision
    /\ abit = FullPrecision
    /\ mode = IF training THEN "train" ELSE "eval"
    /\ output = 0
    /\ target_soft = 0
    /\ act_full = 0
    /\ grads \in {<<>>, <<[level |-> FullPrecision, loss |-> "hard", tgt |-> 0]>>}
    /\ params = 0
    /\ log = <<>>
    /\ snap = [params |-> 0, grads |-> <<>>, mode |-> "train"]

SpecPass == InitPass /\ [][NextPass]_vars

\* --------------------------------------------------------------- main()
NoCheckpoint == [epoch |-> 0, best_prec1 |-> NoBest]

\* lines 76, 89: a path option counts as supplied unless None or 'None'
Supplied(path) == path # "None"

\* lines 81, 106: the first epoch index of the loop
StartEpoch(a, e) ==
    IF Supplied(a.resume) THEN e.ckpt.epoch ELSE a.start_epoch

\* StartBest with the checkpoint's best score dropped
StartBestReset(a, e) == NoBest

\* lines 75, 82: the running best before the first epoch
StartBest(a, e) ==
    IF Supplied(a.resume) THEN e.ckpt.best_prec1 ELSE NoBest

\* IsBest with the comparison written >=
IsBestOnTie(best, score) == IF best = NoBest THEN TRUE ELSE score >= best

\* lines 119-120, 123
IsBest(best, score) == IF best = NoBest THEN TRUE ELSE score > best

\* lines 121, 124
NewBest(best, score) ==
    IF best = NoBest THEN score
    ELSE IF score > best THEN score ELSE best

\* LoadFails with the pretrain branch's else clause (lines 96-97) left out
LoadFailsResumeOnly(a) == Supplied(a.resume) /\ a.resume # "file"

\* lines 76-97: the path that is consulted does not resolve to a file.  The
\* pretrain path is consulted only in the elif branch, when no resume path is
\* supplied.
LoadFails(a) ==
    \/ Supplied(a.resume) /\ a.resume # "file"
    \/ ~Supplied(a.resume) /\ Supplied(a.pretrain) /\ a.pretrain # "file"

\* Loaded with the two branches of lines 76 and 89 in the other order
LoadedPretrainFirst(a, e) ==
    [weights |-> IF Supplied(a.pretrain) THEN "pretrain"
                 ELSE IF Supplied(a.resume) THEN "resume" ELSE "init",
     optimizer |-> IF Supplied(a.resume) /\ ~Supplied(a.pretrain) THEN "resume"
                   ELSE "init",
     sched_epoch |-> IF Supplied(a.resume) THEN e.ckpt.epoch ELSE 0,
     model_bits |-> bw_list(SortList(a.bit_width_list)),
     cli_start |-> a.start_epoch]

\* lines 62-99: what the model, the optimizer and the scheduler are built
\* from, and the --start-epoch value the command line gave
Loaded(a, e) ==
    [weights |-> IF Supplied(a.resume) THEN "resume"
                 ELSE IF Supplied(a.pretrain) THEN "pretrain" ELSE "init",
     optimizer |-> IF Supplied(a.resume) THEN "resume" ELSE "init",
     sched_epoch |-> IF Supplied(a.resume) THEN e.ckpt.epoch ELSE 0,
     model_bits |-> bw_list(SortList(a.bit_width_list)),
     cli_start |-> a.start_epoch]

\* lines 38-104: schedule, model, optimizer, resume or pretrain, scheduler
Startup ==
    /\ pc = "start"
    /\ IF LoadFails(args)
       THEN /\ pc' = "error"
            /\ error' = "ValueError"
            /\ UNCHANGED <<args, epoch, best_prec1, loaded>>
       ELSE /\ pc' = "loop"
            /\ args' = [args EXCEPT !.start_epoch = StartEpoch(args, env)]
            /\ epoch' = StartEpoch(args, env)
            /\ best_prec1' = StartBest(args, env)
            /\ loaded' = Loaded(args, env)
            /\ UNCHANGED error
    /\ UNCHANGED <<prior, env, is_best, val_prec1, val_loss_given, saved, scoreHist,
                   flagHist, epochLog, passVars>>

\* lines 107-108, 110-112: model.train() or model.eval(), then control passes
\* to forward(data_loader, ..., training)
Call(loader, train) ==
    /\ fpc' = "call"
    /\ training' = train
    /\ data_loader' = loader
    /\ mode' = IF train THEN "train" ELSE "eval"
    /\ UNCHANGED <<i, k, bit_width_list, meters, slack_meter, wbit, abit, output,
                   target_soft, act_full, grads, params, log, snap>>

\* InRange with the upper end included
InRangeInclusive(e, total) == e <= total

\* line 106: range(args.start_epoch, args.epochs) still yields index e
InRange(e, total) == e < total

\* lines 106-109: the loop head and the call of the training pass
EpochLoop ==
    /\ pc = "loop"
    /\ IF InRange(epoch, args.epochs)
       THEN /\ pc' = "train"
            /\ epochLog' = <<"train">>
            /\ Call(env.train_loader, TRUE)
       ELSE /\ pc' = "done"
            /\ UNCHANGED <<epochLog, passVars>>
    /\ UNCHANGED <<prior, args, env, epoch, best_prec1, is_best, val_prec1,
                   val_loss_given, saved, loaded, error, scoreHist, flagHist>>

\* lines 110-111: the evaluation pass on the training split
CallEvalTrain ==
    /\ pc = "train"
    /\ fpc = "returned"
    /\ pc' = "eval_train"
    /\ epochLog' = Append(epochLog, "eval_train")
    /\ Call(env.train_loader, FALSE)
    /\ UNCHANGED <<prior, args, env, epoch, best_prec1, is_best, val_prec1,
                   val_loss_given, saved, loaded, error, scoreHist, flagHist>>

\* line 112: the evaluation pass on the validation split
CallEvalVal ==
    /\ pc = "eval_train"
    /\ fpc = "returned"
    /\ pc' = "eval_val"
    /\ epochLog' = Append(epochLog, "eval_val")
    /\ Call(env.val_loader, FALSE)
    /\ UNCHANGED <<prior, args, env, epoch, best_prec1, is_best, val_prec1,
                   val_loss_given, saved, loaded, error, scoreHist, flagHist>>

\* lines 112-117: the validation pass hands back its averages (the top-1 of
\* the last list entry is any score) and the learning-rate schedule steps
LrSchedulerStep ==
    /\ pc = "eval_val"
    /\ fpc = "returned"
    /\ \E s \in Scores : val_prec1' = s
    /\ val_loss_given' = Append(val_loss_given, env.plateau)
    /\ epochLog' = Append(epochLog, "lr_step")
    /\ pc' = "best"
    /\ UNCHANGED <<prior, args, env, epoch, best_prec1, is_best, saved, loaded, error,
                   scoreHist, flagHist, passVars>>

\* lines 119-124: the comparison against the running best
UpdateBest ==
    /\ pc = "best"
    /\ is_best' = IsBest(best_prec1, val_prec1)
    /\ best_prec1' = NewBest(best_prec1, val_prec1)
    /\ scoreHist' = Append(scoreHist, val_prec1)
    /\ flagHist' = Append(flagHist, is_best')
    /\ epochLog' = Append(epochLog, "best")
    /\ pc' = "save"
    /\ UNCHANGED <<prior, args, env, epoch, val_prec1, val_loss_given, saved, loaded,
                   error, passVars>>

\* SaveCheckpoint with 'epoch': epoch in place of epoch + 1
SaveCheckpointSameEpoch ==
    /\ pc = "save"
    /\ saved' = Append(saved, [epoch |-> epoch, best_prec1 |-> best_prec1,
                               is_best |-> is_best, params |-> params,
                               ran |-> epoch])
    /\ epochLog' = Append(epochLog, "save")
    /\ pc' = "track"
    /\ UNCHANGED <<prior, args, env, epoch, best_prec1, is_best, val_prec1,
                   val_loss_given, loaded, error, scoreHist, flagHist, passVars>>

\* lines 125-134: the checkpoint record handed to save_checkpoint
SaveCheckpoint ==
    /\ pc = "save"
    /\ saved' = Append(saved, [epoch |-> epoch + 1, best_prec1 |-> best_prec1,
                               is_best |-> is_best, params |-> params,
                               ran |-> epoch])
    /\ epochLog' = Append(epochLog, "save")
    /\ pc' = "track"
    /\ UNCHANGED <<prior, args, env, epoch, best_prec1, is_best, val_prec1,
                   val_loss_given, loaded, error, scoreHist, flagHist, passVars>>

\* lines 136-150: the tracking emission.  The zip call reads train_ce and
\* val_ce, names bound nowhere in the file, so with tracking enabled the
\* statement raises NameError before anything is emitted; nothing here
\* catches an exception of the sink either.
TrackingEmit ==
    /\ pc = "track"
    /\ IF args.wandb_log
       THEN /\ pc' = "error"
            /\ error' = "NameError: train_ce"
            /\ UNCHANGED epochLog
       ELSE /\ pc' = "summary"
            /\ epochLog' = Append(epochLog, "track")
            /\ UNCHANGED error
    /\ UNCHANGED <<prior, args, env, epoch, best_prec1, is_best, val_prec1,
                   val_loss_given, saved, loaded, scoreHist, flagHist, passVars>>

\* lines 152-155 and the loop increment
LogSummary ==
    /\ pc = "summary"
    /\ epochLog' = Append(epochLog, "summary")
    /\ epoch' = epoch + 1
    /\ pc' = "loop"
    /\ UNCHANGED <<prior, args, env, best_prec1, is_best, val_prec1, val_loss_given,
                   saved, loaded, error, scoreHist, flagHist, passVars>>

Next ==
    \/ Startup
    \/ EpochLoop
    \/ CallEvalTrain
    \/ CallEvalVal
    \/ LrSchedulerStep
    \/ UpdateBest
    \/ SaveCheckpoint
    \/ TrackingEmit
    \/ LogSummary
    \/ ForwardEntry
    \/ EvalReference
    \/ EvalLevel
    \/ EvalElse
    \/ ElseLevel
    \/ TrainReference
    \/ TrainLevel
    \/ TrainStep
    \/ ForwardReturn

\* The checkpoint files a resume path can name: written by an earlier run, so
\* with an epoch field of at least 1 and a numeric best score.
Checkpoints == [epoch : 1..MaxEpochs, best_prec1 : Scores]

\* A whole run of main(), from the parsed command line.
Init ==
    /\ args \in [bit_width_list : RunSchedules, epochs : 0..MaxEpochs,
                 start_epoch : StartEpochs, wandb_log : BOOLEAN,
                 eval_constraint : {FALSE}, resume : PathKinds, pretrain : PathKinds]
    /\ env \in [train_loader : LoaderSizes, val_loader : LoaderSizes,
                num_layers : 0..MaxLayers, plateau : BOOLEAN,
                ckpt : Checkpoints \cup {NoCheckpoint}]
    /\ (env.ckpt # NoCheckpoint) <=> (args.resume = "file")
    /\ pc = "start"
    /\ epoch = 0
    /\ best_prec1 = NoBest
    /\ is_best = FALSE
    /\ val_prec1 = 0
    /\ val_loss_given = <<>>
    /\ saved = <<>>
    /\ loaded = [weights |-> "init", optimizer |-> "init", sched_epoch |-> 0,
                 model_bits |-> <<>>, cli_start |-> 0]
    /\ error = "none"
    /\ scoreHist = <<>>
    /\ flagHist = <<>>
    /\ epochLog = <<>>
    /\ prior = NoPrior
    /\ fpc = "idle"
    /\ training = FALSE
    /\ data_loader = 0
    /\ i = 0
    /\ k = 0
    /\ bit_width_list = <<>>
    /\ meters = <<>>
    /\ slack_meter = <<>>
    /\ wbit = FullPrecision
    /\ abit = FullPrecision
    /\ mode = "train"
    /\ output = 0
    /\ target_soft = 0
    /\ act_full = 0
    /\ grads = <<>>
    /\ params = 0
    /\ log = <<>>
    /\ snap = [params |-> 0, grads |-> <<>>, mode |-> "train"]

Spec == Init /\ [][Next]_vars

\* The run is stopped between two epochs (or at its end) and main() is
\* started again with the same command line plus --resume naming the
\* checkpoint that the last completed epoch wrote.  The new process starts
\* from the state of Init; params counts the steps of the new process.
Restart ==
    /\ prior.runs = 0
    /\ pc \in {"loop", "done"}
    /\ saved # <<>>
    /\ prior' = [runs |-> 1, start |-> args.start_epoch,
                 ran |-> [n \in 1..Len(saved) |-> saved[n].ran],
                 scores |-> scoreHist]
    /\ args' = [args EXCEPT !.resume = "file", !.start_epoch = loaded.cli_start]
    /\ env' = [env EXCEPT !.ckpt = [epoch |-> Last(saved).epoch,
                                    best_prec1 |-> Last(saved).best_prec1]]
    /\ pc' = "start"
    /\ epoch' = 0
    /\ best_prec1' = NoBest
    /\ is_best' = FALSE
    /\ val_prec1' = 0
    /\ val_loss_given' = <<>>
    /\ saved' = <<>>
    /\ loaded' = [weights |-> "init", optimizer |-> "init", sched_epoch |-> 0,
                  model_bits |-> <<>>, cli_start |-> 0]
    /\ error' = "none"
    /\ scoreHist' = <<>>
    /\ flagHist' = <<>>
    /\ epochLog' = <<>>
    /\ fpc' = "idle"
    /\ training' = FALSE
    /\ data_loader' = 0
    /\ i' = 0
    /\ k' = 0
    /\ bit_width_list' = <<>>
    /\ meters' = <<>>
    /\ slack_meter' = <<>>
    /\ wbit' = FullPrecision
    /\ abit' = FullPrecision
    /\ mode' = "train"
    /\ output' = 0
    /\ target_soft' = 0
    /\ act_full' = 0
    /\ grads' = <<>>
    /\ params' = 0
    /\ log' = <<>>
    /\ snap' = [params |-> 0, grads |-> <<>>, mode |-> "train"]

NextResume ==
    \/ Next
    \/ Restart

\* A run started without resume or pretrain and without tracking, which may
\* be stopped once and resumed.
InitResume ==
    /\ Init
    /\ ~Supplied(args.resume)
    /\ ~Supplied(args.pretrain)
    /\ ~args.wandb_log
    /\ ~env.plateau

SpecResume == InitResume /\ [][NextResume]_vars

\* ================================================================ claims

\* the optimizer and backward calls of the current batch, in order
OptCalls == SelectSeq(log, LAMBDA e : e.op # "forward")
Backwards == SelectSeq(log, LAMBDA e : e.op = "backward")
InTrainingPass == training /\ fpc \in {"batch", "train_lvl", "returned"}
InEvalPass ==
    ~training /\ fpc \in {"batch", "eval_lvl", "eval_else", "else_lvl",
                          "returned", "raised"}
BatchFinished == fpc \in {"batch", "returned"} /\ i > 0

\* C1: in a training pass every batch zeroes the gradients exactly once,
\* before its first backward call, steps the optimizer exactly once, after
\* its last backward call, and does neither between two backward calls; the
\* optimizer has stepped once per finished batch, so n times after n batches.
C1_OneStepPerBatch ==
    InTrainingPass =>
        /\ params = snap.params + i
        /\ fpc = "returned" => params = snap.params + data_loader
        /\ log # <<>> =>
            /\ OptCalls[1].op = "zero_grad"
            /\ \A j \in 2..Len(OptCalls) : OptCalls[j].op # "zero_grad"
            /\ \A j \in 1..Len(OptCalls) :
                   OptCalls[j].op = "step" => j = Len(OptCalls) /\ BatchFinished
            /\ Len(Backwards) >= 1
            /\ BatchFinished =>
                   /\ Last(OptCalls).op = "step"
                   /\ Len(OptCalls) = Len(Backwards) + 2
                   /\ Len(Backwards) = Len(grads)

\* a training pass over two batches with a two-level list has returned
C1_Witness ==
    /\ training
    /\ fpc = "returned"
    /\ data_loader = 2
    /\ Len(bit_width_list) = 2
    /\ params = snap.params + 2
    /\ Len(Backwards) = 3

\* C4: an evaluation pass calls neither backward nor zero_grad nor step, so
\* parameters and accumulated gradients stay what they were at its entry; of
\* the model's state only the precision selectors change.
C4_EvalPassFrame ==
    InEvalPass =>
        /\ params = snap.params
        /\ grads = snap.grads
        /\ mode = snap.mode
        /\ \A j \in 1..Len(log) : log[j].op = "forward"

\* an evaluation pass over two batches has returned, with gradients of an
\* earlier training batch still held and the selectors moved off 32
C4_Witness ==
    /\ ~training
    /\ fpc = "returned"
    /\ i = 2
    /\ snap.grads # <<>>
    /\ grads = snap.grads
    /\ wbit # FullPrecision

StrictlyAscending(s) == \A j \in 1..(Len(s) - 1) : s[j] < s[j + 1]
NoDuplicates(s) == Cardinality(Range(s)) = Len(s)
MaxOf(S) == CHOOSE x \in S : \A y \in S : y <= x
MinOf(S) == CHOOSE x \in S : \A y \in S : x <= y

\* the level right above lv among the listed levels and the reference
NextHigher(lv, sched) ==
    MinOf({x \in Range(sched) \cup {FullPrecision} : x > lv})

\* C2: in a training batch each soft-label backward call of a level uses the
\* soft target taken from the output of the immediately higher level (never
\* the labels), and the reference output supervises only the first level
\* trained after the reference.  Stated for lists without duplicates and
\* without 32.
C2_TargetFromNextHigherLevel ==
    (InTrainingPass /\ StrictlyAscending(bit_width_list)
                    /\ FullPrecision \notin Range(bit_width_list)) =>
        \A j \in 1..Len(Backwards) :
            Backwards[j].loss = "soft" =>
                /\ Backwards[j].tgt # 0
                /\ Backwards[j].tgt = NextHigher(Backwards[j].wbit, bit_width_list)
                /\ Backwards[j].tgt = FullPrecision => j = 2

\* C3: a finished training batch has run backward exactly once at the
\* reference level, with the hard loss, and exactly once at every other
\* requested level, with the soft loss: one call for the reference plus one
\* per requested non-reference level.  Stated for lists without duplicates.
C3_EachLevelOnce ==
    (InTrainingPass /\ BatchFinished /\ NoDuplicates(args.bit_width_list)) =>
        LET at(lv) == {j \in 1..Len(Backwards) : Backwards[j].wbit = lv}
            others == Range(args.bit_width_list) \ {FullPrecision}
        IN /\ Cardinality(at(FullPrecision)) = 1
           /\ \A j \in at(FullPrecision) : Backwards[j].loss = "hard"
           /\ \A lv \in others :
                  /\ Cardinality(at(lv)) = 1
                  /\ \A j \in at(lv) : Backwards[j].loss = "soft"
           /\ Len(Backwards) = 1 + Cardinality(others)

\* C5: the list forward() works with is strictly ascending, holds exactly the
\* requested levels, each once, and the list the model is built with is that
\* list with 32 appended exactly when 32 was not requested.
C5_ScheduleSortedDeduplicated ==
    fpc \notin {"idle", "call"} =>
        /\ StrictlyAscending(bit_width_list)
        /\ Range(bit_width_list) = Range(args.bit_width_list)
        /\ loaded.model_bits =
               IF FullPrecision \in Range(args.bit_width_list)
               THEN bit_width_list
               ELSE bit_width_list \o <<FullPrecision>>

\* C8: for a requested list without 32 (and without duplicates) a pass keeps
\* one accumulator per requested level plus one for level 32, and after a
\* pass over a non-empty loader every one of them has been updated.
C8_AccumulatorPerLevelAndReference ==
    (fpc \in {"batch", "returned"} /\ NoDuplicates(args.bit_width_list)
        /\ FullPrecision \notin Range(args.bit_width_list)) =>
        /\ Len(meters) = Len(args.bit_width_list) + 1
        /\ (fpc = "returned" /\ data_loader > 0) =>
               \A m \in 1..Len(meters) : meters[m].updates > 0

\* C9: in an evaluation batch the reference trace that the per-layer slack
\* is taken against comes from a forward run at level 32, whether or not 32
\* was requested.
C9_ReferenceTraceAtFullPrecision ==
    (InEvalPass /\ fpc \in {"eval_lvl", "eval_else", "else_lvl", "raised"}) =>
        act_full = FullPrecision

\* C6: in a run started without a prior best, the flag handed to
\* save_checkpoint is set exactly on the first epoch and on every epoch
\* whose score is strictly above all earlier ones; the best score equals the
\* maximum seen so far and never decreases; for 70.0, 72.5, 71.0 the flags
\* are set, set, clear and the best ends at 72.5.
C6_BestFlag ==
    ~Supplied(args.resume) =>
        /\ Len(flagHist) = Len(scoreHist)
        /\ \A n \in 1..Len(scoreHist) :
               flagHist[n] <=> \A m \in 1..(n - 1) : scoreHist[m] < scoreHist[n]
        /\ (scoreHist # <<>> /\ pc # "best") => best_prec1 = MaxOf(Range(scoreHist))
        /\ \A n \in 1..Len(saved) :
               /\ saved[n].is_best = flagHist[n]
               /\ saved[n].best_prec1 = MaxOf(Range(SubSeq(scoreHist, 1, n)))
        /\ \A n \in 1..(Len(saved) - 1) : saved[n].best_prec1 <= saved[n + 1].best_prec1
        /\ scoreHist = <<700, 725, 710>> =>
               /\ flagHist = <<TRUE, TRUE, FALSE>>
               /\ best_prec1 = 725

\* three epochs with scores 70.0, 72.5, 71.0 have been checkpointed in a run
\* started without resume
C6_Witness ==
    /\ ~Supplied(args.resume)
    /\ scoreHist = <<700, 725, 710>>
    /\ Len(saved) = 3
    /\ ~saved[3].is_best
    /\ saved[3].best_prec1 = 725

\* C7: resuming from a checkpoint with epoch E and best B, the first epoch run
\* is E, the running best starts at B, the first flag is set only for a score
\* strictly above B, and the next checkpoint stores max(B, score).
C7_ResumeStart ==
    (args.resume = "file" /\ pc # "start") =>
        LET E == env.ckpt.epoch
            B == env.ckpt.best_prec1
        IN /\ args.start_epoch = E
           /\ saved = <<>> => epoch = E
           /\ scoreHist = <<>> => best_prec1 = B
           /\ saved # <<>> =>
                  /\ saved[1].ran = E
                  /\ saved[1].is_best = (scoreHist[1] > B)
                  /\ saved[1].best_prec1 = MaxOf({B, scoreHist[1]})

\* a run resumed at epoch 2 has checkpointed its first epoch, whose score
\* tied the loaded best and was not flagged
C7_Witness ==
    /\ args.resume = "file"
    /\ env.ckpt.epoch = 2
    /\ saved # <<>>
    /\ saved[1].ran = 2
    /\ scoreHist[1] = env.ckpt.best_prec1
    /\ ~saved[1].is_best

\* C10: with tracking enabled the run is never ended by the tracking
\* emission; every epoch up to the configured total is run and the loop
\* reaches its end.
C10_TrackingNeverAborts ==
    args.wandb_log =>
        /\ error # "NameError: train_ce"
        /\ (pc \in {"done", "error"} /\ error \notin {"ValueError", "NameError: epsilon"})
               => (pc = "done" /\ epoch >= args.epochs)

\* a path option that is consulted and does not name a file
BadPath ==
    \/ args.resume = "missing"
    \/ ~Supplied(args.resume) /\ args.pretrain = "missing"

\* C11 as stated: whenever a resume path or a pretrain path is supplied and
\* names no file, startup ends in an error before any pass, optimizer step
\* or checkpoint.
C11_MissingPathAlwaysFatal ==
    ((args.resume = "missing" \/ args.pretrain = "missing") /\ pc # "start") =>
        /\ pc = "error"
        /\ error = "ValueError"
        /\ fpc = "idle"
        /\ params = 0
        /\ saved = <<>>

\* C11, amended: a missing resume path, or a missing pretrain path when no
\* resume path is supplied, ends startup in an error before the epoch loop:
\* no pass is entered, no optimizer step is taken, no checkpoint is written.
C11_MissingPathFatal ==
    (BadPath /\ pc # "start") =>
        /\ pc = "error"
        /\ error = "ValueError"
        /\ fpc = "idle"
        /\ params = 0
        /\ grads = <<>>
        /\ log = <<>>
        /\ saved = <<>>
        /\ epochLog = <<>>

\* startup has failed on a missing pretrain path of a run that was to train
\* for at least one epoch
C11_Witness ==
    /\ ~Supplied(args.resume)
    /\ args.pretrain = "missing"
    /\ args.epochs > args.start_epoch
    /\ pc = "error"
    /\ error = "ValueError"

\* C12: without a failure the loop ends when the epoch counter reaches
\* args.epochs, having run the indices start, start+1, ..., total-1 in order,
\* each once, max(0, total - start) epochs in all; with start >= total no
\* pass is run and nothing is checkpointed; short of the end or a failure
\* the run can always take its next step.
C12_EpochRange ==
    pc # "start" =>
        LET start == args.start_epoch
            total == args.epochs
        IN /\ \A n \in 1..Len(saved) :
                  /\ saved[n].ran = start + n - 1
                  /\ saved[n].ran < total
           /\ Len(scoreHist) \in {Len(saved), Len(saved) + 1}
           /\ pc = "done" =>
                  /\ error = "none"
                  /\ Len(saved) = IF total > start THEN total - start ELSE 0
                  /\ Len(scoreHist) = Len(saved)
                  /\ epoch = IF total > start THEN total ELSE start
           /\ (start >= total /\ pc # "error") =>
                  /\ pc \in {"loop", "done"}
                  /\ fpc = "idle"
                  /\ saved = <<>>
                  /\ params = 0
           /\ pc \notin {"done", "error"} => ENABLED Next

\* a run over the indices 1 and 2 has ended at total 3
C12_Witness ==
    /\ pc = "done"
    /\ args.start_epoch = 1
    /\ args.epochs = 3
    /\ Len(saved) = 2
    /\ saved[1].ran = 1
    /\ saved[2].ran = 2

EpochOrder ==
    <<"train", "eval_train", "eval_val", "lr_step", "best", "save", "track",
      "summary">>

\* C13: every executed epoch takes its steps in the order training pass,
\* evaluation on the training split, evaluation on the validation split, one
\* scheduler step (with the validation loss exactly for a plateau schedule),
\* comparison, one checkpoint (epoch field = index + 1), tracking emission,
\* summary; each once, and the parameters checkpointed are those the
\* training pass left.  An epoch that no pass has interrupted runs through
\* to its summary.
C13_EpochStepOrder ==
    /\ epochLog = SubSeq(EpochOrder, 1, Len(epochLog))
    /\ \A n \in 1..Len(saved) : saved[n].epoch = saved[n].ran + 1
    /\ \A n \in 1..Len(val_loss_given) : val_loss_given[n] = env.plateau
    /\ Len(val_loss_given) \in {Len(saved), Len(saved) + 1}
    /\ pc \in {"track", "summary"} => Last(saved).params = snap.params
    /\ (epochLog # <<>> /\ pc \in {"loop", "done", "error"} /\ fpc # "raised") =>
           epochLog = EpochOrder

\* C14: in both kinds of pass every accumulator gets exactly one update per
\* batch, weighted by the batch size and computed from the forward run at
\* the accumulator's own level, so its count is the number of samples seen;
\* metrics of the reference forward go to the reference accumulator only.
C14_OneUpdatePerBatch ==
    (fpc \in {"batch", "returned"} /\ NoDuplicates(args.bit_width_list)) =>
        \A m \in 1..Len(meters) :
            /\ meters[m].updates = i
            /\ meters[m].count = i * BatchSize
            /\ meters[m].levels \subseteq {bit_width_list[m]}

\* C15: with the slack-evaluation toggle disabled an evaluation pass updates
\* no slack accumulator, neither a per-layer one nor the output-slack slot,
\* while it still records the metrics of every level.
C15_SlackOnlyWhenEnabled ==
    (InEvalPass /\ ~args.eval_constraint) =>
        /\ \A m \in 1..Len(slack_meter) :
               \A l \in 1..Len(slack_meter[m]) : slack_meter[m][l] = 0
        /\ (fpc = "returned" /\ data_loader > 0) =>
               \A m \in 1..Len(meters) : meters[m].updates > 0

\* C16: every forward run has the weight and the activation selector equal,
\* and equal to the level of the accumulator its metrics go to and, for the
\* reference trace of an evaluation batch, to the reference level.
C16_SelectorMatchesLevelFed ==
    (fpc \in {"batch", "eval_lvl", "eval_else", "else_lvl", "train_lvl",
              "returned", "raised"}) =>
        /\ \A j \in 1..Len(log) :
               log[j].op = "forward" =>
                   /\ log[j].wbit = log[j].abit
                   /\ log[j].meter # 0 => log[j].wbit = bit_width_list[log[j].meter]
        /\ (~training /\ act_full # 0) => act_full = FullPrecision

\* the epoch indices the current run has checkpointed
RanNow == [n \in 1..Len(saved) |-> saved[n].ran]

\* C17: a run resumed from the checkpoint that epoch e wrote starts at epoch
\* e + 1; over both runs the indices from the original start on are run in
\* order, none twice and none skipped, up to total - 1 at the end; the best
\* score is the maximum over the epochs of both runs.
C17_ResumeRoundTrip ==
    (prior.runs = 1 /\ pc # "start") =>
        LET e == Last(prior.ran)
            all == prior.ran \o RanNow
            scores == prior.scores \o scoreHist
        IN /\ args.start_epoch = e + 1
           /\ saved = <<>> => epoch = e + 1
           /\ \A n \in 1..Len(all) : all[n] = prior.start + n - 1
           /\ pc = "done" => Len(all) = args.epochs - prior.start
           /\ best_prec1 = MaxOf(Range(scores))
           /\ \A n \in 1..Len(saved) :
                  saved[n].best_prec1 =
                      MaxOf(Range(prior.scores \o SubSeq(scoreHist, 1, n)))

\* a run stopped after epoch 0 (score 72.5) was resumed and has finished
\* epochs 1 and 2 with lower scores
C17_Witness ==
    /\ prior.runs = 1
    /\ prior.ran = <<0>>
    /\ prior.scores = <<725>>
    /\ pc = "done"
    /\ RanNow = <<1, 2>>
    /\ scoreHist = <<700, 710>>
    /\ best_prec1 = 725

PretrainOnly == ~Supplied(args.resume) /\ args.pretrain = "file"

\* what C18 says of a run given both paths: resume decides, pretrain is unused
ResumeWins ==
    (Supplied(args.resume) /\ Supplied(args.pretrain) /\ pc # "start") =>
        IF args.resume = "file"
        THEN /\ loaded.weights = "resume"
             /\ loaded.optimizer = "resume"
             /\ args.start_epoch = env.ckpt.epoch
             /\ scoreHist = <<>> => best_prec1 = env.ckpt.best_prec1
        ELSE pc = "error" /\ error = "ValueError"

\* C18 as stated: with a pretrain path only, weights are loaded and nothing
\* else, the epoch count starts from zero, the best starts unset so the
\* first epoch is flagged best, the optimizer state is not loaded; with
\* both paths the resume path takes effect.
C18_PretrainStartsAtZero ==
    /\ (PretrainOnly /\ pc # "start") =>
           /\ loaded.weights = "pretrain"
           /\ loaded.optimizer = "init"
           /\ args.start_epoch = 0
           /\ saved = <<>> => epoch = 0
           /\ scoreHist = <<>> => best_prec1 = NoBest
           /\ flagHist # <<>> => flagHist[1]
    /\ ResumeWins

\* C18, amended: the epoch count starts from the --start-epoch argument
\* (zero unless given), not from the pretrain checkpoint; the rest as stated.
C18_PretrainOnly ==
    /\ (PretrainOnly /\ pc # "start") =>
           /\ loaded.weights = "pretrain"
           /\ loaded.optimizer = "init"
           /\ loaded.sched_epoch = 0
           /\ args.start_epoch = loaded.cli_start
           /\ saved = <<>> => epoch = loaded.cli_start
           /\ saved # <<>> => saved[1].ran = loaded.cli_start
           /\ scoreHist = <<>> => best_prec1 = NoBest
           /\ flagHist # <<>> => flagHist[1]
           /\ saved # <<>> => saved[1].is_best /\ saved[1].best_prec1 = scoreHist[1]
    /\ ResumeWins

\* a pretrain-only run given --start-epoch 1 has checkpointed its first
\* epoch, index 1, flagged best
C18_Witness ==
    /\ PretrainOnly
    /\ loaded.weights = "pretrain"
    /\ loaded.cli_start = 1
    /\ saved # <<>>
    /\ saved[1].ran = 1
    /\ saved[1].is_best

====
